---- MODULE Spec2Model ----
(***************************************************************************)
(* The asynchronous-scan examples of pan-ai-runtime-security:              *)
(*   variant "sync" : examples/example03-async-scan/main.py   main()        *)
(*   variant "coop" : examples/example04-concurrent/main.py                 *)
(*                    run_concurrent_scans() / main_async() / main()        *)
(* Both submit a batch, poll query_by_scan_ids, present the scan status,    *)
(* poll query_by_report_ids and present the reports.  The scan service is   *)
(* the environment: every call returns a response drawn from a bounded set  *)
(* or raises.                                                               *)
(***************************************************************************)
EXTENDS Integers, Sequences, FiniteSets, TLC

\* ------------------------------------------------------------------ bounds
\* longest detection_results list a record carries
MaxDetections == 1

\* ------------------------------------------------------- program constants
max_retries == 3
retry_wait == 10

\* number of AsyncScanObjects both examples submit in one batch (req_id 1
\* and 2); a query response lists at most one record per submitted request
BatchSize == 2

Variants == {"sync", "coop"}
Sessions == {"scan", "report"}

\* the parts of the printed output: the two presentation steps and the
\* error handlers of example04
OutParts == {"scan", "report", "error"}

\* --------------------------------------------------------- service values
\* Identifiers the submission may return; "" is an empty identifier (falsy,
\* as None is).
IdValues == {"", "id-1"}

Handles == [scan_id : IdValues, report_id : IdValues]

\* One detection result of a report.
DetectionResults == {[data_type |-> "prompt", action |-> "block"]}

\* The detection_results attribute of a record: attr = FALSE is a record
\* without the attribute (hasattr is False).
NoAttr == [attr |-> FALSE, items |-> <<>>]
Empty == [attr |-> TRUE, items |-> <<>>]
Data ==
    {[attr |-> TRUE, items |-> d] :
        d \in UNION {[1..k -> DetectionResults] : k \in 1..MaxDetections}}

\* Records of a query-by-scan-id response.  status = "ABSENT" is a record
\* without a status attribute (hasattr is False).
ScanRecords ==
    [id : {"s1"}, status : {"pending", "complete"},
     detection_results : {NoAttr} \cup Data]
    \cup {[id |-> "s2", status |-> "ABSENT", detection_results |-> NoAttr]}

\* Records of a query-by-report-id response.
ReportRecords ==
    [id : {"r1"}, status : {"ABSENT", "complete"},
     detection_results : {Empty} \cup Data]
    \cup {[id |-> "r2", status |-> "ABSENT", detection_results |-> NoAttr]}

SeqsUpTo(S, n) == UNION {[1..k -> S] : k \in 0..n}

\* A response: None, a bare list, or an object with a `reports` attribute.
\* "unbound" is a local variable that has not been assigned yet.
NoneResp == [kind |-> "None", items |-> <<>>]
Unbound == [kind |-> "unbound", items |-> <<>>]
ListResp(s) == [kind |-> "list", items |-> s]
ObjectResp(s) == [kind |-> "object", items |-> s]

ScanResponses ==
    {NoneResp} \cup {ListResp(s) : s \in SeqsUpTo(ScanRecords, BatchSize)}

ReportResponses ==
    {NoneResp} \cup {ListResp(s) : s \in SeqsUpTo(ReportRecords, BatchSize)}
               \cup {ObjectResp(s) : s \in SeqsUpTo(ReportRecords, BatchSize)}

\* Responses that list at most one record.
SingleScanResponses ==
    {NoneResp} \cup {ListResp(s) : s \in SeqsUpTo(ScanRecords, 1)}

SingleReportResponses ==
    {NoneResp} \cup {ListResp(s) : s \in SeqsUpTo(ReportRecords, 1)}
               \cup {ObjectResp(s) : s \in SeqsUpTo(ReportRecords, 1)}

\* the value None in a field of a record
None == "<None>"

\* Records with fields missing, null or empty: a status that is absent,
\* None or "", an identifier that is absent, detection_results that are
\* absent or empty (None is as falsy as []).
PartialScanRecords ==
    [id : {"s1"}, status : {"ABSENT", None, "", "complete"},
     detection_results : {NoAttr}]
    \cup {[id |-> "ABSENT", status |-> "pending", detection_results |-> NoAttr]}

PartialReportRecords ==
    [id : {"r1"}, status : {"ABSENT"}, detection_results : {NoAttr, Empty}]
    \cup [id : {"ABSENT"}, status : {"ABSENT"}, detection_results : Data]

PartialScanResponses ==
    {NoneResp} \cup {ListResp(s) : s \in SeqsUpTo(PartialScanRecords, BatchSize)}

PartialReportResponses ==
    {NoneResp}
    \cup {ListResp(s) : s \in SeqsUpTo(PartialReportRecords, BatchSize)}
    \cup {ObjectResp(s) : s \in SeqsUpTo(PartialReportRecords, BatchSize)}

\* ------------------------------------------------------ Python semantics
\* truth value of an identifier
TruthyId(x) == x # ""

\* truth value of a response: None and [] are falsy, an object is truthy
Truthy(r) == r.kind = "object" \/ (r.kind = "list" /\ r.items # <<>>)

\* hasattr(record, 'status'): a status of None is an attribute as well
HasStatus(rec) == rec.status # "ABSENT"

\* hasattr(record, 'scan_id') / hasattr(record, 'report_id')
HasId(rec) == rec.id # "ABSENT"

\* str.capitalize() on the status strings the service uses
Capitalize(s) ==
    CASE s = "pending" -> "Pending"
      [] s = "complete" -> "Complete"
      [] s = "allow" -> "Allow"
      [] s = "block" -> "Block"
      [] OTHER -> s

\* str.upper() on the status strings the service uses
Upper(s) ==
    CASE s = "pending" -> "PENDING"
      [] s = "complete" -> "COMPLETE"
      [] OTHER -> s

\* ------------------------------------------------- completion predicates
\* mutant of ScanStatusLoop: only the first record is looked at
ScanStatusLoopFirstOnly(items, i) ==
    items # <<>> /\ HasStatus(items[1]) /\ items[1].status = "complete"

\* example03 lines 138-142, example04 lines 160-163:
\*   for scan in scan_by_ids_response:
\*       if hasattr(scan, 'status') and scan.status == 'complete':
\*           scan_completed = True; break
RECURSIVE ScanStatusLoop(_, _)
ScanStatusLoop(items, i) ==
    IF i > Len(items) THEN FALSE
    ELSE IF HasStatus(items[i]) /\ items[i].status = "complete" THEN TRUE
    ELSE ScanStatusLoop(items, i + 1)

\* mutant of CheckScanCompleted: any response that lists a record completes
\* the poll
CheckScanCompletedAnyRecord(resp, completed) ==
    IF Truthy(resp) THEN TRUE ELSE completed

\* example03 lines 137-142, example04 lines 159-163: the new value of
\* scan_completed after one response has been inspected
CheckScanCompleted(resp, completed) ==
    IF Truthy(resp) THEN (completed \/ ScanStatusLoop(resp.items, 1))
    ELSE completed

\* example03 line 207, example04 lines 213 and 230:
\*   reports = r.reports if hasattr(r, 'reports') else r
ReportsOf(resp) ==
    IF resp.kind = "object" THEN ListResp(resp.items) ELSE resp

\* mutant of ReportDataLoop: data counts only on a record whose status is
\* 'complete' as well
ReportDataLoopNeedsStatus(items, i) ==
    \E j \in i..Len(items) :
        /\ items[j].detection_results.attr
        /\ items[j].detection_results.items # <<>>
        /\ items[j].status = "complete"

\* example03 lines 211-215, example04 lines 216-219:
\*   for report in reports:
\*       if hasattr(report, 'detection_results') and report.detection_results:
\*           has_results = True; break
RECURSIVE ReportDataLoop(_, _)
ReportDataLoop(items, i) ==
    IF i > Len(items) THEN FALSE
    ELSE IF items[i].detection_results.attr
            /\ items[i].detection_results.items # <<>> THEN TRUE
    ELSE ReportDataLoop(items, i + 1)

\* mutant of CheckHasResults: example04 looks for data in a bare list only
CheckHasResultsCoopListOnly(v, resp, completed) ==
    IF v = "coop" /\ resp.kind # "list" THEN completed
    ELSE IF Truthy(ReportsOf(resp))
         THEN (completed \/ ReportDataLoop(ReportsOf(resp).items, 1))
         ELSE completed

\* example03 lines 207-215 (v = "sync"), example04 lines 212-219
\* (v = "coop"): the new value of has_results
CheckHasResults(v, resp, completed) ==
    IF v = "coop" /\ ~Truthy(resp) THEN completed
    ELSE IF Truthy(ReportsOf(resp))
         THEN (completed \/ ReportDataLoop(ReportsOf(resp).items, 1))
         ELSE completed

\* example03 line 207 assigns `reports` on every iteration; example04
\* line 213 only under `if report_by_ids_response:`
ReportsAfterQuery(v, resp, old) ==
    IF v = "coop" /\ ~Truthy(resp) THEN old ELSE ReportsOf(resp)

\* ----------------------------------------------------------- presentation
Line(l, i, s, d) == [line |-> l, id |-> i, status |-> s, detail |-> d]

\* the entry that stands for an AttributeError raised while record i was
\* being printed: None has no method capitalize or upper
AttributeError(i) == Line("AttributeError", i, "", "")

\* the presentation stopped in an exception
Raised(lines) ==
    lines # <<>> /\ lines[Len(lines)].line = "AttributeError"

\* example03 line 158:
\*   scan_id = scan.scan_id if hasattr(scan, 'scan_id') else 'N/A'
ScanIdOrNA(rec) == IF HasId(rec) THEN rec.id ELSE "N/A"

\* example03 lines 157-170: one entry per distinct scan id; line 169
\* calls scan.status.capitalize() on every status other than 'complete'
RECURSIVE PresentScansSync(_, _, _)
PresentScansSync(items, i, printed) ==
    IF i > Len(items) THEN <<>>
    ELSE IF ScanIdOrNA(items[i]) \in printed
         THEN PresentScansSync(items, i + 1, printed)
    ELSE IF HasStatus(items[i]) /\ items[i].status = None
         THEN <<AttributeError(ScanIdOrNA(items[i]))>>
    ELSE <<Line("scan", ScanIdOrNA(items[i]),
                IF ~HasStatus(items[i]) THEN "Submitted"
                ELSE IF items[i].status = "complete" THEN "Complete"
                ELSE Capitalize(items[i].status), "")>>
         \o PresentScansSync(items, i + 1,
                             printed \cup {ScanIdOrNA(items[i])})

\* example04 lines 174-179: one entry per scan, the identifier if the
\* record has one, the status upper-cased by scan.status.upper() (line 178)
RECURSIVE PresentScansCoop(_, _)
PresentScansCoop(items, i) ==
    IF i > Len(items) THEN <<>>
    ELSE IF HasStatus(items[i]) /\ items[i].status = None
         THEN <<AttributeError(IF HasId(items[i]) THEN items[i].id ELSE "")>>
    ELSE <<Line("scan", IF HasId(items[i]) THEN items[i].id ELSE "",
                IF HasStatus(items[i]) THEN Upper(items[i].status) ELSE "", "")>>
         \o PresentScansCoop(items, i + 1)

\* example03 lines 151-170, example04 lines 172-185
PresentScans(v, resp) ==
    IF ~Truthy(resp)
    THEN <<Line(IF v = "sync" THEN "No scan data available"
                ELSE "No scan details available", "", "", "")>>
    ELSE IF v = "sync" THEN PresentScansSync(resp.items, 1, {})
    ELSE PresentScansCoop(resp.items, 1)

\* mutant of WorstAction: only the first detection result is looked at
WorstActionFirstOnly(drs, dt, i) ==
    IF drs # <<>> /\ drs[1].data_type = dt /\ drs[1].action = "block"
    THEN "block" ELSE "allow"

\* example03 lines 292-306, example04 lines 294-308: 'block' if any
\* detection result of data type dt has action 'block'
RECURSIVE WorstAction(_, _, _)
WorstAction(drs, dt, i) ==
    IF i > Len(drs) THEN "allow"
    ELSE IF drs[i].data_type = dt /\ drs[i].action = "block" THEN "block"
    ELSE WorstAction(drs, dt, i + 1)

\* example03 lines 338-345, example04 lines 340-347
OverallVerdict(drs) ==
    IF WorstAction(drs, "prompt", 1) = "block"
       \/ WorstAction(drs, "response", 1) = "block"
    THEN "Content blocked" ELSE "Content allowed"

\* mutant of PresentReportList: the verdict is computed whenever the record
\* has the attribute, even when the list is empty
RECURSIVE PresentReportListAttrOnly(_, _, _, _)
PresentReportListAttrOnly(items, i, printed, results) ==
    IF i > Len(items) THEN <<>>
    ELSE IF items[i].id \in printed
         THEN PresentReportListAttrOnly(items, i + 1, printed, results)
    ELSE <<Line("report", items[i].id,
                IF results THEN "Processing" ELSE "Submitted",
                IF items[i].detection_results.attr
                THEN OverallVerdict(items[i].detection_results.items)
                ELSE "Processing")>>
         \o PresentReportListAttrOnly(items, i + 1,
                                      printed \cup {items[i].id}, results)

\* example03 lines 234-357, example04 lines 236-353: one entry per
\* distinct report id
RECURSIVE PresentReportList(_, _, _, _)
PresentReportList(items, i, printed, results) ==
    IF i > Len(items) THEN <<>>
    ELSE IF items[i].id \in printed
         THEN PresentReportList(items, i + 1, printed, results)
    ELSE <<Line("report", items[i].id,
                IF results THEN "Processing" ELSE "Submitted",
                IF items[i].detection_results.attr
                   /\ items[i].detection_results.items # <<>>
                THEN OverallVerdict(items[i].detection_results.items)
                ELSE "Processing")>>
         \o PresentReportList(items, i + 1, printed \cup {items[i].id}, results)

\* mutant of PresentReports: the test for a response without reports is
\* left out
PresentReportsNoEmptyTest(v, resp, reps, results) ==
    IF ~Truthy(resp) THEN <<Line("No report data available", "", "", "")>>
    ELSE PresentReportList((IF v = "sync" THEN reps ELSE ReportsOf(resp)).items,
                           1, {}, results)

\* example03 lines 226-357 (reads the `reports` left by the last loop
\* iteration), example04 lines 229-357 (recomputes `reports`, line 230)
PresentReports(v, resp, reps, results) ==
    IF ~Truthy(resp) THEN <<Line("No report data available", "", "", "")>>
    ELSE IF ~Truthy(IF v = "sync" THEN reps ELSE ReportsOf(resp))
         THEN <<Line("No reports available in response", "", "", "")>>
    ELSE PresentReportList((IF v = "sync" THEN reps ELSE ReportsOf(resp)).items,
                           1, {}, results)

\* ------------------------------------------------------------------ state
VARIABLES
    variant,                 \* which example runs
    pc,                      \* position in main / run_concurrent_scans
    async_result,            \* the handle returned by async_scan
    retry_count,             \* retry_count of the loop in progress
    scan_completed,          \* flag of the scan-id loop
    has_results,             \* flag of the report-id loop
    scan_by_ids_response,    \* last response of query_by_scan_ids
    report_by_ids_response,  \* last response of query_by_report_ids
    reports,                 \* `reports` of the report-id loop
    out,                     \* what each presentation step printed
    closed,                  \* scanner.close() has been awaited
    queries,                 \* history: queries issued, per session
    waits,                   \* history: retry waits taken, per session
    keys,                    \* history: identifiers the queries were keyed by
    sat,                     \* history: did each response meet the predicate
    fetched,                 \* history: response the last query returned
    failed,                  \* the step that raised, or "none"
    frames,                  \* locals of each poll run as a task of its own
    ref,                     \* history: what each task was answered
    turn,                    \* the task that took the last step
    call,                    \* a helper function and the arguments of a call
    ret                      \* what the call returned or printed

\* the variables of the two example programs
main == <<variant, pc, async_result, retry_count, scan_completed, has_results,
          scan_by_ids_response, report_by_ids_response, reports, out, closed,
          queries, waits, keys, sat, fetched, failed>>

\* the variables of the polls run as tasks and of the helper functions
aux == <<frames, ref, turn, call, ret>>

vars == <<main, aux>>

\* variables of the program itself
prog == <<variant, async_result, retry_count, scan_completed, has_results,
          scan_by_ids_response, report_by_ids_response, reports, out, closed>>

\* history variables
hist == <<queries, waits, keys, sat, fetched, failed>>

\* --------------------------------------- the predicates as the spec states
\* "any element whose status field equals 'complete'"
StatusPredicate(resp) ==
    \E i \in DOMAIN ReportsOf(resp).items :
        ReportsOf(resp).items[i].status = "complete"

\* "any element whose detection_results collection is non-empty"
DataPredicate(resp) ==
    \E i \in DOMAIN ReportsOf(resp).items :
        Len(ReportsOf(resp).items[i].detection_results.items) > 0

\* the predicate the spec assigns to each kind of query
SessionPredicate(s, resp) ==
    IF s = "scan" THEN StatusPredicate(resp) ELSE DataPredicate(resp)

\* no task has been started, no helper function is being called
NoTasks ==
    /\ frames = <<>>
    /\ ref = <<>>
    /\ turn = "none"

NoCall ==
    /\ call = [fn |-> "none"]
    /\ ret = <<>>

\* the example programs have not been started
NotRunning ==
    /\ variant = "none"
    /\ pc = "none"
    /\ async_result = [scan_id |-> "", report_id |-> ""]
    /\ retry_count = 0
    /\ scan_completed = FALSE
    /\ has_results = FALSE
    /\ scan_by_ids_response = Unbound
    /\ report_by_ids_response = Unbound
    /\ reports = Unbound
    /\ out = [p \in OutParts |-> <<>>]
    /\ closed = FALSE
    /\ queries = [s \in Sessions |-> 0]
    /\ waits = [s \in Sessions |-> 0]
    /\ keys = [s \in Sessions |-> {}]
    /\ sat = [s \in Sessions |-> <<>>]
    /\ fetched = [s \in Sessions |-> Unbound]
    /\ failed = "none"

Init ==
    /\ NoTasks
    /\ NoCall
    /\ variant \in Variants
    /\ pc = "submit"
    /\ async_result = [scan_id |-> "", report_id |-> ""]
    /\ retry_count = 0
    /\ scan_completed = FALSE
    /\ has_results = FALSE
    /\ scan_by_ids_response = Unbound
    /\ report_by_ids_response = Unbound
    /\ reports = Unbound
    /\ out = [p \in OutParts |-> <<>>]
    /\ closed = FALSE
    /\ queries = [s \in Sessions |-> 0]
    /\ waits = [s \in Sessions |-> 0]
    /\ keys = [s \in Sessions |-> {}]
    /\ sat = [s \in Sessions |-> <<>>]
    /\ fetched = [s \in Sessions |-> Unbound]
    /\ failed = "none"

\* ------------------------------------------------------------- histories
\* The histories count and record up to one step past the budget: a program
\* that keeps to its budget never reaches the cap, one that does not is seen
\* to exceed it.
HistoryCap == max_retries + 1

Count(n) == IF n >= HistoryCap THEN n ELSE n + 1

Record(h, b) == IF Len(h) >= HistoryCap THEN h ELSE Append(h, b)

\* ---------------------------------------------------------- loop control
\* mutant of LoopContinues: the budget is one attempt short
LoopContinuesShort(rc, flag) == rc < max_retries - 1 /\ ~flag

\* example03 lines 124 and 194, example04 lines 147 and 200:
\*   while retry_count < max_retries and not <flag>:
LoopContinues(rc, flag) == rc < max_retries /\ ~flag

\* mutant of NeedsWait: the first retry goes out without its wait
NeedsWaitLate(rc) == rc > 1

\* mutant of NeedsWait: the wait is taken before every query
NeedsWaitAlways(rc) == TRUE

\* example03 lines 125 and 195, example04 lines 148 and 201:
\*   if retry_count > 0: <sleep retry_wait>
NeedsWait(rc) == rc > 0

\* mutant of BreaksOut: off by one, the loop gives up one attempt early
BreaksOutEarly(rc, flag) == flag \/ rc >= max_retries - 1

\* example03 lines 147 and 220, example04 lines 168 and 224:
\*   if <flag> or retry_count >= max_retries: break
BreaksOut(rc, flag) == flag \/ rc >= max_retries

\* mutant of IncrementRetry: the counter starts over when it reaches the
\* budget
IncrementRetryWraps(rc) == (rc + 1) % max_retries

\* mutant of IncrementRetry: an iteration counts twice
IncrementRetryByTwo(rc) == rc + 2

\* mutant of IncrementRetry: the increment is forgotten
IncrementRetryStuck(rc) == rc

\* example03 lines 144 and 217, example04 lines 165 and 221:
\*   retry_count += 1
IncrementRetry(rc) == rc + 1

\* example03 line 132, example04 line 154:
\*   scan_ids=[async_result.scan_id]
ScanKey(h) == h.scan_id

\* mutant of ReportKey: the report query is keyed by the scan identifier
ReportKeyFromScan(h) == h.scan_id

\* example03 line 202, example04 line 207:
\*   report_ids=[async_result.report_id]
ReportKey(h) == h.report_id

\* mutant of StoreResponse: an empty answer does not replace the last good
\* one
StoreResponseKeepGood(old, r) == IF Truthy(r) THEN r ELSE old

\* example03 lines 131-133 and 201-203, example04 lines 153-155 and
\* 206-208: the response variable after the call returned r
StoreResponse(old, r) == r

\* ---------------------------------------------------------------- actions
\* example03 line 102; example04 lines 106-112 (both coroutines gathered)
Submit ==
    /\ pc = "submit"
    /\ \E h \in Handles : async_result' = h
    /\ pc' = IF variant = "coop" THEN "guard" ELSE "scan_init"
    /\ UNCHANGED <<variant, retry_count, scan_completed, has_results,
                   scan_by_ids_response, report_by_ids_response, reports,
                   out, closed>>
    /\ UNCHANGED hist
    /\ UNCHANGED aux

\* the submission raises: nothing is assigned
SubmitRaises ==
    /\ pc = "submit"
    /\ pc' = "raised"
    /\ failed' = "submit"
    /\ UNCHANGED prog
    /\ UNCHANGED <<queries, waits, keys, sat, fetched>>
    /\ UNCHANGED aux

\* mutant of Guard: close() belongs to the guarded block, so a run that
\* skips the polling ends without it
GuardSkipsClose ==
    /\ pc = "guard"
    /\ pc' = IF TruthyId(async_result.scan_id) /\ TruthyId(async_result.report_id)
             THEN "scan_init" ELSE "done"
    /\ UNCHANGED prog
    /\ UNCHANGED hist
    /\ UNCHANGED aux

\* example04 line 136:
\*   if async_result and async_result.scan_id and async_result.report_id:
Guard ==
    /\ pc = "guard"
    /\ pc' = IF TruthyId(async_result.scan_id) /\ TruthyId(async_result.report_id)
             THEN "scan_init" ELSE "close"
    /\ UNCHANGED prog
    /\ UNCHANGED hist
    /\ UNCHANGED aux

\* example03 lines 118-122 (also binds scan_by_ids_response = None);
\* example04 lines 141-144
ScanInit ==
    /\ pc = "scan_init"
    /\ retry_count' = 0
    /\ scan_completed' = FALSE
    /\ scan_by_ids_response' =
           IF variant = "sync" THEN NoneResp ELSE scan_by_ids_response
    /\ pc' = "scan_loop"
    /\ UNCHANGED <<variant, async_result, has_results, report_by_ids_response,
                   reports, out, closed>>
    /\ UNCHANGED hist
    /\ UNCHANGED aux

\* example03 lines 124-125, example04 lines 147-148
ScanLoopTest ==
    /\ pc = "scan_loop"
    /\ pc' = IF LoopContinues(retry_count, scan_completed)
             THEN (IF NeedsWait(retry_count) THEN "scan_wait" ELSE "scan_query")
             ELSE "scan_present"
    /\ UNCHANGED prog
    /\ UNCHANGED hist
    /\ UNCHANGED aux

\* example03 line 127 time.sleep(retry_wait);
\* example04 line 150 await asyncio.sleep(retry_wait)
ScanWait ==
    /\ pc = "scan_wait"
    /\ waits' = [waits EXCEPT !["scan"] = Count(@)]
    /\ pc' = "scan_query"
    /\ UNCHANGED prog
    /\ UNCHANGED <<queries, keys, sat, fetched, failed>>
    /\ UNCHANGED aux

\* example03 lines 131-133, example04 lines 153-155: the call returns a
\* response out of U
ScanQueryFrom(U) ==
    /\ pc = "scan_query"
    /\ \E r \in U :
          /\ scan_by_ids_response' = StoreResponse(scan_by_ids_response, r)
          /\ fetched' = [fetched EXCEPT !["scan"] = r]
          /\ sat' = [sat EXCEPT !["scan"] =
                        Record(@, SessionPredicate("scan", r))]
    /\ queries' = [queries EXCEPT !["scan"] = Count(@)]
    /\ keys' = [keys EXCEPT !["scan"] = @ \cup {ScanKey(async_result)}]
    /\ pc' = "scan_check"
    /\ UNCHANGED <<variant, async_result, retry_count, scan_completed,
                   has_results, report_by_ids_response, reports, out, closed>>
    /\ UNCHANGED <<waits, failed>>
    /\ UNCHANGED aux

\* the service answers with well-formed records
ScanQuery == ScanQueryFrom(ScanResponses)

\* the service answers with partial records
ScanQueryPartial == ScanQueryFrom(PartialScanResponses)

\* the service answers with at most one record
ScanQuerySingle == ScanQueryFrom(SingleScanResponses)

\* mutant of ScanQueryRaises: the exception is swallowed and the attempt
\* counts as one that returned nothing
ScanQueryRaisesSwallowed ==
    /\ pc = "scan_query"
    /\ queries' = [queries EXCEPT !["scan"] = Count(@)]
    /\ keys' = [keys EXCEPT !["scan"] = @ \cup {ScanKey(async_result)}]
    /\ failed' = "scan"
    /\ scan_by_ids_response' = NoneResp
    /\ pc' = "scan_check"
    /\ UNCHANGED <<variant, async_result, retry_count, scan_completed,
                   has_results, report_by_ids_response, reports, out, closed>>
    /\ UNCHANGED <<waits, sat, fetched>>
    /\ UNCHANGED aux

\* example03 lines 131-133, example04 lines 153-155: the call raises; no
\* handler encloses the loop, so the exception leaves the function
ScanQueryRaises ==
    /\ pc = "scan_query"
    /\ queries' = [queries EXCEPT !["scan"] = Count(@)]
    /\ keys' = [keys EXCEPT !["scan"] = @ \cup {ScanKey(async_result)}]
    /\ failed' = "scan"
    /\ pc' = "raised"
    /\ UNCHANGED prog
    /\ UNCHANGED <<waits, sat, fetched>>
    /\ UNCHANGED aux

\* example03 lines 137-148, example04 lines 159-169
ScanCheck ==
    /\ pc = "scan_check"
    /\ scan_completed' = CheckScanCompleted(scan_by_ids_response, scan_completed)
    /\ retry_count' = IncrementRetry(retry_count)
    /\ pc' = IF BreaksOut(retry_count', scan_completed')
             THEN "scan_present" ELSE "scan_loop"
    /\ UNCHANGED <<variant, async_result, has_results, scan_by_ids_response,
                   report_by_ids_response, reports, out, closed>>
    /\ UNCHANGED hist
    /\ UNCHANGED aux

\* example03 lines 151-182, example04 lines 172-188; an exception raised
\* while a record is printed leaves the function like one raised by a query
ScanPresent ==
    /\ pc = "scan_present"
    /\ out' = [out EXCEPT !["scan"] = PresentScans(variant, scan_by_ids_response)]
    /\ pc' = IF Raised(out'["scan"]) THEN "raised" ELSE "report_init"
    /\ failed' = IF Raised(out'["scan"]) THEN "scan_present" ELSE failed
    /\ UNCHANGED <<variant, async_result, retry_count, scan_completed,
                   has_results, scan_by_ids_response, report_by_ids_response,
                   reports, closed>>
    /\ UNCHANGED <<queries, waits, keys, sat, fetched>>
    /\ UNCHANGED aux

\* mutant of ReportInit: the report-id loop goes on with the counter the
\* scan-id loop left behind
ReportInitKeepsCount ==
    /\ pc = "report_init"
    /\ has_results' = FALSE
    /\ report_by_ids_response' =
           IF variant = "sync" THEN NoneResp ELSE report_by_ids_response
    /\ pc' = "report_loop"
    /\ UNCHANGED <<variant, async_result, retry_count, scan_completed,
                   scan_by_ids_response, reports, out, closed>>
    /\ UNCHANGED hist
    /\ UNCHANGED aux

\* example03 lines 188-192 (also binds report_by_ids_response = None);
\* example04 lines 194-197
ReportInit ==
    /\ pc = "report_init"
    /\ retry_count' = 0
    /\ has_results' = FALSE
    /\ report_by_ids_response' =
           IF variant = "sync" THEN NoneResp ELSE report_by_ids_response
    /\ pc' = "report_loop"
    /\ UNCHANGED <<variant, async_result, scan_completed, scan_by_ids_response,
                   reports, out, closed>>
    /\ UNCHANGED hist
    /\ UNCHANGED aux

\* example03 lines 194-195, example04 lines 200-201
ReportLoopTest ==
    /\ pc = "report_loop"
    /\ pc' = IF LoopContinues(retry_count, has_results)
             THEN (IF NeedsWait(retry_count) THEN "report_wait" ELSE "report_query")
             ELSE "report_present"
    /\ UNCHANGED prog
    /\ UNCHANGED hist
    /\ UNCHANGED aux

\* example03 line 197, example04 line 203
ReportWait ==
    /\ pc = "report_wait"
    /\ waits' = [waits EXCEPT !["report"] = Count(@)]
    /\ pc' = "report_query"
    /\ UNCHANGED prog
    /\ UNCHANGED <<queries, keys, sat, fetched, failed>>
    /\ UNCHANGED aux

\* example03 lines 201-203, example04 lines 206-208: the call returns a
\* response out of U
ReportQueryFrom(U) ==
    /\ pc = "report_query"
    /\ \E r \in U :
          /\ report_by_ids_response' = StoreResponse(report_by_ids_response, r)
          /\ fetched' = [fetched EXCEPT !["report"] = r]
          /\ sat' = [sat EXCEPT !["report"] =
                        Record(@, SessionPredicate("report", r))]
    /\ queries' = [queries EXCEPT !["report"] = Count(@)]
    /\ keys' = [keys EXCEPT !["report"] = @ \cup {ReportKey(async_result)}]
    /\ pc' = "report_check"
    /\ UNCHANGED <<variant, async_result, retry_count, scan_completed,
                   has_results, scan_by_ids_response, reports, out, closed>>
    /\ UNCHANGED <<waits, failed>>
    /\ UNCHANGED aux

ReportQuery == ReportQueryFrom(ReportResponses)

ReportQueryPartial == ReportQueryFrom(PartialReportResponses)

ReportQuerySingle == ReportQueryFrom(SingleReportResponses)

\* example03 lines 201-203, example04 lines 206-208: the call raises
ReportQueryRaises ==
    /\ pc = "report_query"
    /\ queries' = [queries EXCEPT !["report"] = Count(@)]
    /\ keys' = [keys EXCEPT !["report"] = @ \cup {ReportKey(async_result)}]
    /\ failed' = "report"
    /\ pc' = "raised"
    /\ UNCHANGED prog
    /\ UNCHANGED <<waits, sat, fetched>>
    /\ UNCHANGED aux

\* example03 lines 207-221, example04 lines 212-225
ReportCheck ==
    /\ pc = "report_check"
    /\ reports' = ReportsAfterQuery(variant, report_by_ids_response, reports)
    /\ has_results' = CheckHasResults(variant, report_by_ids_response, has_results)
    /\ retry_count' = IncrementRetry(retry_count)
    /\ pc' = IF BreaksOut(retry_count', has_results')
             THEN "report_present" ELSE "report_loop"
    /\ UNCHANGED <<variant, async_result, scan_completed, scan_by_ids_response,
                   report_by_ids_response, out, closed>>
    /\ UNCHANGED hist
    /\ UNCHANGED aux

\* example03 lines 224-359, example04 lines 228-357
ReportPresent ==
    /\ pc = "report_present"
    /\ out' = [out EXCEPT !["report"] =
                  PresentReports(variant, report_by_ids_response, reports,
                                 has_results)]
    /\ pc' = IF variant = "coop" THEN "close" ELSE "done"
    /\ UNCHANGED <<variant, async_result, retry_count, scan_completed,
                   has_results, scan_by_ids_response, report_by_ids_response,
                   reports, closed>>
    /\ UNCHANGED hist
    /\ UNCHANGED aux

\* example04 line 360: await ai_security_scanner.close()
Close ==
    /\ pc = "close"
    /\ closed' = TRUE
    /\ pc' = "done"
    /\ UNCHANGED <<variant, async_result, retry_count, scan_completed,
                   has_results, scan_by_ids_response, report_by_ids_response,
                   reports, out>>
    /\ UNCHANGED hist
    /\ UNCHANGED aux

\* example04 lines 373-375 and 385-389: main_async prints and re-raises,
\* main prints the traceback and exits with status 1.  In example03 the
\* exception is not caught at all and the interpreter stops.
HandleError ==
    /\ pc = "raised"
    /\ variant = "coop"
    /\ out' = [out EXCEPT !["error"] = <<Line("Error", "", "", "")>>]
    /\ pc' = "exit1"
    /\ UNCHANGED <<variant, async_result, retry_count, scan_completed,
                   has_results, scan_by_ids_response, report_by_ids_response,
                   reports, closed>>
    /\ UNCHANGED hist
    /\ UNCHANGED aux

Next ==
    \/ Submit
    \/ SubmitRaises
    \/ Guard
    \/ ScanInit
    \/ ScanLoopTest
    \/ ScanWait
    \/ ScanQuery
    \/ ScanQueryRaises
    \/ ScanCheck
    \/ ScanPresent
    \/ ReportInit
    \/ ReportLoopTest
    \/ ReportWait
    \/ ReportQuery
    \/ ReportQueryRaises
    \/ ReportCheck
    \/ ReportPresent
    \/ Close
    \/ HandleError

Spec == Init /\ [][Next]_vars

\* --------------------------------------------------- calls that all return
\* the steps of a run in which no query raises; whether a loop ends does
\* not depend on how many records a response lists, so the responses list at
\* most one
NextReturns ==
    \/ Submit
    \/ SubmitRaises
    \/ Guard
    \/ ScanInit
    \/ ScanLoopTest
    \/ ScanWait
    \/ ScanQuerySingle
    \/ ScanCheck
    \/ ScanPresent
    \/ ReportInit
    \/ ReportLoopTest
    \/ ReportWait
    \/ ReportQuerySingle
    \/ ReportCheck
    \/ ReportPresent
    \/ Close
    \/ HandleError

\* Both programs are sequential: the interpreter (example04: the event
\* loop, whose only task this is) executes the next statement as long as
\* there is one, and every call and every sleep returns.
SpecReturns == Init /\ [][NextReturns]_vars /\ WF_vars(NextReturns)

\* the same programs against a service whose records are partial
NextPartial ==
    \/ Submit
    \/ SubmitRaises
    \/ Guard
    \/ ScanInit
    \/ ScanLoopTest
    \/ ScanWait
    \/ ScanQueryPartial
    \/ ScanQueryRaises
    \/ ScanCheck
    \/ ScanPresent
    \/ ReportInit
    \/ ReportLoopTest
    \/ ReportWait
    \/ ReportQueryPartial
    \/ ReportQueryRaises
    \/ ReportCheck
    \/ ReportPresent
    \/ Close
    \/ HandleError

SpecPartial == Init /\ [][NextPartial]_vars

\* ------------------------------------------- the two polls run as tasks
\* Each polling loop of example04 run as a coroutine of its own: task
\* "scan" runs lines 141-169 on the scan identifier, task "report" runs
\* lines 194-225 on the report identifier.  The event loop switches tasks
\* where a task awaits (the query, the sleep); letting it switch between
\* any two steps includes those schedules.
Tasks == Sessions

\* example04 lines 141-144 and 194-197: the locals of a loop as it starts
StartFrame ==
    [pc |-> "loop", retry_count |-> 0, completed |-> FALSE,
     response |-> Unbound]

\* what a task has been answered so far: the number of answers, the last
\* one, and the position of the first one that met the task's predicate
\* (0: none did)
StartRef == [n |-> 0, last |-> Unbound, sat |-> 0]

Answered(t, x, r) ==
    [n |-> Count(x.n),
     last |-> r,
     sat |-> IF x.sat = 0 /\ SessionPredicate(t, r) THEN Count(x.n) ELSE x.sat]

\* mutant of Owner: retry_count is one module-level name that both tasks
\* read and write
OwnerShared(t) == "scan"

\* example04 lines 142 and 195: retry_count is a local name, so each
\* running coroutine reads and writes the one of its own frame
Owner(t) == t

InitTasks ==
    /\ NotRunning
    /\ NoCall
    /\ frames = [t \in Tasks |-> StartFrame]
    /\ ref = [t \in Tasks |-> StartRef]
    /\ turn = "none"

\* example04 lines 147-148 and 200-201
TaskLoopTest(t) ==
    /\ frames[t].pc = "loop"
    /\ frames' = [frames EXCEPT ![t].pc =
          IF LoopContinues(frames[Owner(t)].retry_count, frames[t].completed)
          THEN (IF NeedsWait(frames[Owner(t)].retry_count)
                THEN "wait" ELSE "query")
          ELSE "returned"]
    /\ turn' = t
    /\ UNCHANGED <<ref, call, ret>>
    /\ UNCHANGED main

\* example04 lines 150 and 203: await asyncio.sleep(retry_wait)
TaskWait(t) ==
    /\ frames[t].pc = "wait"
    /\ frames' = [frames EXCEPT ![t].pc = "query"]
    /\ turn' = t
    /\ UNCHANGED <<ref, call, ret>>
    /\ UNCHANGED main

\* example04 lines 153-155 and 206-208: the awaited query returns
TaskQuery(t) ==
    /\ frames[t].pc = "query"
    /\ \E r \in (IF t = "scan" THEN SingleScanResponses
                 ELSE SingleReportResponses) :
          /\ frames' = [frames EXCEPT
                 ![t].response = StoreResponse(frames[t].response, r),
                 ![t].pc = "check"]
          /\ ref' = [ref EXCEPT ![t] = Answered(t, @, r)]
    /\ turn' = t
    /\ UNCHANGED <<call, ret>>
    /\ UNCHANGED main

\* example04 lines 159-169 and 212-225
TaskCheck(t) ==
    /\ frames[t].pc = "check"
    /\ LET done == IF t = "scan"
                   THEN CheckScanCompleted(frames[t].response,
                                           frames[t].completed)
                   ELSE CheckHasResults("coop", frames[t].response,
                                        frames[t].completed)
           count == IncrementRetry(frames[Owner(t)].retry_count)
       IN  frames' = [frames EXCEPT
               ![Owner(t)].retry_count = count,
               ![t].completed = done,
               ![t].pc = IF BreaksOut(count, done) THEN "returned"
                         ELSE "loop"]
    /\ turn' = t
    /\ UNCHANGED <<ref, call, ret>>
    /\ UNCHANGED main

NextTasks ==
    \E t \in Tasks :
        \/ TaskLoopTest(t)
        \/ TaskWait(t)
        \/ TaskQuery(t)
        \/ TaskCheck(t)

SpecTasks == InitTasks /\ [][NextTasks]_vars

\* ------------------------------------------------------ helper functions
\* The mock scanner and the print helpers, each applied once to arguments
\* drawn from bounded sets.

\* most pieces a prompt is put together from
MaxPieces == 2

\* A string is a sequence of characters.
Uppercase ==
    <<"A", "B", "C", "D", "E", "F", "G", "H", "I", "J", "K", "L", "M",
      "N", "O", "P", "Q", "R", "S", "T", "U", "V", "W", "X", "Y", "Z">>

Lowercase ==
    <<"a", "b", "c", "d", "e", "f", "g", "h", "i", "j", "k", "l", "m",
      "n", "o", "p", "q", "r", "s", "t", "u", "v", "w", "x", "y", "z">>

LowerChar(c) ==
    IF \E i \in DOMAIN Uppercase : Uppercase[i] = c
    THEN Lowercase[CHOOSE i \in DOMAIN Uppercase : Uppercase[i] = c]
    ELSE c

\* mutant of lower: the prompt is compared as it was typed
lowerAsTyped(p) == p

\* str.lower()
lower(p) == [i \in DOMAIN p |-> LowerChar(p[i])]

\* `sub in p` on strings
Contains(sub, p) ==
    \E k \in 0..(Len(p) - Len(sub)) :
        \A i \in 1..Len(sub) : p[k + i] = sub[i]

\* the substrings the mock classes look for
W_url == <<"u", "r", "l">>
W_bank_account ==
    <<"b", "a", "n", "k", " ", "a", "c", "c", "o", "u", "n", "t">>
W_password == <<"p", "a", "s", "s", "w", "o", "r", "d">>
W_routing_number ==
    <<"r", "o", "u", "t", "i", "n", "g", " ", "n", "u", "m", "b", "e", "r">>
W_ignore == <<"i", "g", "n", "o", "r", "e">>

\* pieces of prompts: the substrings in mixed case, whole, split in two or
\* inside a longer word
Pieces ==
    {<<"U", "R", "L">>,
     <<"c", "u", "r", "l", "s">>,
     <<"B", "a", "n", "k", " ">>,
     <<"A", "c", "c", "o", "u", "n", "t">>,
     <<"P", "a", "s", "s", "W", "o", "r", "d">>,
     <<"m", "y", " ">> \o W_routing_number,
     <<"I", "g", "n", "o", "r", "e", " ">>,
     <<"h", "i", " ">>}

RECURSIVE Prompts(_)
Prompts(n) ==
    IF n = 0 THEN {<<>>}
    ELSE Prompts(n - 1) \cup {p \o q : p \in Prompts(n - 1), q \in Pieces}

\* the two mock scanners: src/mock_example.py and
\* examples/example06-mock/main.py
Scanners == {"mock_example", "example06"}

\* detection flags of a prompt or a response: obj = FALSE is None in place
\* of the object, `has` the flags the object has as attributes
FlagNames == {"url_cats", "dlp", "injection"}

PromptDetected(u, d, i) ==
    [obj |-> TRUE, has |-> FlagNames,
     url_cats |-> u, dlp |-> d, injection |-> i]

ResponseDetected(u, d) ==
    [obj |-> TRUE, has |-> {"url_cats", "dlp"},
     url_cats |-> u, dlp |-> d, injection |-> FALSE]

NoDetected ==
    [obj |-> FALSE, has |-> {},
     url_cats |-> FALSE, dlp |-> FALSE, injection |-> FALSE]

\* mutant of ScanResponse: a routing number is not taken as sensitive data
ScanResponseThreeWords(scanner, prompt, action) ==
    LET url_in_prompt == Contains(W_url, lower(prompt))
        sensitive_in_prompt ==
            \/ Contains(W_bank_account, lower(prompt))
            \/ Contains(W_password, lower(prompt))
        injection_in_prompt == Contains(W_ignore, lower(prompt))
    IN  [tr_id |-> "mock-transaction-id",
         category |->
             IF scanner = "mock_example" THEN "security"
             ELSE IF url_in_prompt THEN "security"
             ELSE IF sensitive_in_prompt THEN "dlp"
             ELSE IF injection_in_prompt THEN "policy"
             ELSE "none",
         action |-> action,
         prompt_detected |->
             PromptDetected(url_in_prompt, sensitive_in_prompt,
                            injection_in_prompt),
         response_detected |-> ResponseDetected(FALSE, FALSE)]

\* src/mock_example.py lines 38-64, example06 lines 41-77:
\* ScanResponse.__init__ (the identifiers are random and left out)
ScanResponse(scanner, prompt, action) ==
    LET url_in_prompt == Contains(W_url, lower(prompt))
        sensitive_in_prompt ==
            \/ Contains(W_bank_account, lower(prompt))
            \/ Contains(W_password, lower(prompt))
            \/ (scanner = "example06"
                /\ Contains(W_routing_number, lower(prompt)))
        injection_in_prompt == Contains(W_ignore, lower(prompt))
    IN  [tr_id |-> "mock-transaction-id",
         category |->
             IF scanner = "mock_example" THEN "security"
             ELSE IF url_in_prompt THEN "security"
             ELSE IF sensitive_in_prompt THEN "dlp"
             ELSE IF injection_in_prompt THEN "policy"
             ELSE "none",
         action |-> action,
         prompt_detected |->
             PromptDetected(url_in_prompt, sensitive_in_prompt,
                            injection_in_prompt),
         response_detected |-> ResponseDetected(FALSE, FALSE)]

\* src/mock_example.py lines 80-94, example06 lines 95-122:
\* MockScanner.sync_scan
sync_scan(scanner, ai_profile, content, tr_id, metadata) ==
    LET b1 == Contains(W_url, lower(content.prompt))
        b2 == b1 \/ Contains(W_bank_account, lower(content.prompt))
        b3 == b2 \/ Contains(W_password, lower(content.prompt))
        should_block ==
            b3 \/ (scanner = "example06"
                   /\ Contains(W_routing_number, lower(content.prompt)))
    IN  ScanResponse(scanner, content.prompt,
                     IF should_block THEN "block" ELSE "allow")

\* one printed line: its fixed text, the source it names and the values
\* it shows
Printed(l, s, v) == [line |-> l, source |-> s, items |-> v]

\* hasattr(detection, f)
HasFlag(d, f) == d.obj /\ f \in d.has

\* source.lower()
LowerSource(s) ==
    CASE s = "Prompt" -> "prompt"
      [] s = "Response" -> "response"
      [] OTHER -> s

\* mutant of print_detection_summary: an injection is listed whatever the
\* source
print_detection_summary_any_source(source, detection) ==
    LET d1 == IF HasFlag(detection, "url_cats") /\ detection.url_cats
              THEN <<"URL categories">> ELSE <<>>
        d2 == d1 \o (IF HasFlag(detection, "dlp") /\ detection.dlp
                     THEN <<"DLP">> ELSE <<>>)
        d3 == d2 \o (IF HasFlag(detection, "injection")
                        /\ detection.injection
                     THEN <<"Injection">> ELSE <<>>)
    IN  IF d3 # <<>> THEN <<Printed("detected issues", source, d3)>>
        ELSE <<Printed("No issues detected in", LowerSource(source), <<>>)>>

\* examples/shared/utils.py lines 128-151, examples/example01-basic/utils.py
\* lines 95-118
print_detection_summary(source, detection) ==
    LET d1 == IF HasFlag(detection, "url_cats") /\ detection.url_cats
              THEN <<"URL categories">> ELSE <<>>
        d2 == d1 \o (IF HasFlag(detection, "dlp") /\ detection.dlp
                     THEN <<"DLP">> ELSE <<>>)
        d3 == d2 \o (IF HasFlag(detection, "injection")
                        /\ source = "Prompt"
                        /\ detection.injection
                     THEN <<"Injection">> ELSE <<>>)
    IN  IF d3 # <<>> THEN <<Printed("detected issues", source, d3)>>
        ELSE <<Printed("No issues detected in", LowerSource(source), <<>>)>>

\* src/utils.py lines 105-129: the flags are read without hasattr, the
\* injection flag of the prompt only
InlineSummary(source, detection) ==
    LET d1 == IF detection.url_cats
              THEN <<"URL categories">> ELSE <<>>
        d2 == d1 \o (IF detection.dlp THEN <<"DLP">> ELSE <<>>)
        d3 == d2 \o (IF source = "Prompt" /\ detection.injection
                     THEN <<"Injection">> ELSE <<>>)
    IN  IF ~detection.obj THEN <<>>
        ELSE IF d3 # <<>> THEN <<Printed("detected issues", source, d3)>>
        ELSE <<Printed("No issues detected in", LowerSource(source), <<>>)>>

\* mutant of Verdict: everything that is not a block is allowed
VerdictUnlessBlock(action) ==
    IF action # "block" THEN Printed("Content allowed", "", <<>>)
    ELSE Printed("Content blocked", "", <<>>)

\* examples/shared/utils.py lines 118-121, src/utils.py lines 132-135
Verdict(action) ==
    IF action = "allow" THEN Printed("Content allowed", "", <<>>)
    ELSE Printed("Content blocked", "", <<>>)

\* examples/shared/utils.py lines 104-108, src/utils.py lines 98-102
Header(r) ==
    <<Printed("Scan ID", "", <<r.scan_id>>),
      Printed("Report ID", "", <<r.report_id>>),
      Printed("Transaction ID", "", <<r.tr_id>>),
      Printed("Category", "", <<r.category>>),
      Printed("Action", "", <<r.action>>)>>

\* the implementations of print_scan_result_summary:
\* examples/shared/utils.py (and example01-basic/utils.py), src/utils.py
Helpers == {"shared", "src"}

\* examples/shared/utils.py lines 96-125, src/utils.py lines 91-135
print_scan_result_summary(helper, r) ==
    Header(r)
    \o (IF helper = "shared"
        THEN print_detection_summary("Prompt", r.prompt_detected)
             \o print_detection_summary("Response", r.response_detected)
        ELSE InlineSummary("Prompt", r.prompt_detected)
             \o InlineSummary("Response", r.response_detected))
    \o <<Verdict(r.action)>>

\* ------------------------------------------------- arguments of the calls
Flags == {TRUE, FALSE}

\* what a caller may pass as the detection object of print_detection_summary
AnyDetected ==
    {d \in [obj : {TRUE}, has : SUBSET FlagNames,
            url_cats : Flags, dlp : Flags, injection : Flags] :
        \A f \in FlagNames \ d.has : ~d[f]}
    \cup {NoDetected}

\* responses of the SDK and of the mock classes: every field is there, a
\* field may be None
SummaryResponses ==
    [scan_id : {"scan-1"}, report_id : {"report-1"},
     tr_id : {"tr-1", None}, category : {"benign"},
     action : {"allow", "block", "ALLOW", None},
     prompt_detected :
         {PromptDetected(u, d, i) : u \in Flags, d \in Flags, i \in Flags}
         \cup {NoDetected},
     response_detected :
         {ResponseDetected(u, d) : u \in Flags, d \in Flags}
         \cup {NoDetected}]

Calls ==
    [fn : {"sync_scan"}, scanner : Scanners, ai_profile : {"profile-1", None},
     content : [prompt : Prompts(MaxPieces), response : {"ok", None}],
     tr_id : {"tr-1", None}, metadata : {"meta", None}]
    \cup [fn : {"print_detection_summary"}, source : {"Prompt", "Response"},
          detection : AnyDetected]
    \cup [fn : {"print_scan_result_summary"}, helper : Helpers,
          scan_response : SummaryResponses]

InitCalls ==
    /\ NotRunning
    /\ NoTasks
    /\ call \in Calls
    /\ ret = <<>>

CallSyncScan ==
    /\ call.fn = "sync_scan"
    /\ ret = <<>>
    /\ ret' = <<sync_scan(call.scanner, call.ai_profile, call.content,
                          call.tr_id, call.metadata)>>
    /\ UNCHANGED <<frames, ref, turn, call>>
    /\ UNCHANGED main

CallPrintDetectionSummary ==
    /\ call.fn = "print_detection_summary"
    /\ ret = <<>>
    /\ ret' = print_detection_summary(call.source, call.detection)
    /\ UNCHANGED <<frames, ref, turn, call>>
    /\ UNCHANGED main

CallPrintScanResultSummary ==
    /\ call.fn = "print_scan_result_summary"
    /\ ret = <<>>
    /\ ret' = print_scan_result_summary(call.helper, call.scan_response)
    /\ UNCHANGED <<frames, ref, turn, call>>
    /\ UNCHANGED main

NextCalls ==
    \/ CallSyncScan
    \/ CallPrintDetectionSummary
    \/ CallPrintScanResultSummary

SpecCalls == InitCalls /\ [][NextCalls]_vars

\* ----------------------------------------------- the scanning decorator
\* check_user_content of examples/example05-decorator/main.py,
\* decorator_example.py and examples/example06-mock/main.py: one call of the
\* wrapped function, by keyword as every call in the repository is.  `ret`
\* is the list of what the call did, in order.
Decorators == {"example05", "decorator_example", "example06"}

\* how scanner.sync_scan ends: it returns a response, returns None, or
\* raises an Exception
ScanOutcomes ==
    [kind : {"response"}, action : {"allow", "block", "alert", None}]
    \cup [kind : {"None", "raises"}, action : {None}]

Event(e, v) == [ev |-> e, val |-> v]

WrapperCalls ==
    [fn : {"check_user_content"}, decorator : Decorators,
     error_func : {"error_func", None}, debug : {TRUE, FALSE},
     user_input : {"hello", "my password"}]

\* mutant of IsBlockedBy: no response counts as not blocked
IsBlockedByResponseOnly(r) == r.kind = "response" /\ r.action # "allow"

\* example05 line 100, decorator_example line 120, example06 line 268:
\*   is_blocked = scan_response.action != "allow" if scan_response else True
IsBlockedBy(r) == IF r.kind = "response" THEN r.action # "allow" ELSE TRUE

\* example05 lines 102-104, decorator_example lines 122-124, example06 lines
\* 270-271 and 163: the debug output reads attributes of scan_response and
\* raises AttributeError when it is None
DebugRaises(r) == r.kind = "None"

\* mutant of IsBlocked: an exception lets the input through
IsBlockedFailOpen(o, debug) ==
    IF o.kind = "raises" \/ (debug /\ DebugRaises(o)) THEN FALSE
    ELSE IsBlockedBy(o)

\* example05 lines 92-137, decorator_example lines 116-132, example06 lines
\* 260-278: is_blocked after the try statement; the handler catches every
\* Exception and sets is_blocked = True
IsBlocked(o, debug) ==
    IF o.kind = "raises" \/ (debug /\ DebugRaises(o)) THEN TRUE
    ELSE IsBlockedBy(o)

\* mutant of Dispatch: a blocked input is never passed on, error function
\* or not
DispatchStrict(is_blocked, error_func) ==
    IF is_blocked
    THEN (IF error_func # None THEN <<Event("error_func", "returned")>>
          ELSE <<>>)
    ELSE <<Event("func", "returned")>>

\* example05 lines 149-151, decorator_example lines 143-145, example06 lines
\* 290-292:
\*   if is_blocked and error_func: return error_func(*args, **kwargs)
\*   return func(*args, **kwargs)
Dispatch(is_blocked, error_func) ==
    IF is_blocked /\ error_func # None
    THEN <<Event("error_func", "returned")>>
    ELSE <<Event("func", "returned")>>

InitWrapper ==
    /\ NotRunning
    /\ NoTasks
    /\ call \in WrapperCalls
    /\ ret = <<>>

\* example05 lines 95-97, decorator_example lines 117-119, example06 lines
\* 263-265: the scan is called and ends
WrapperScan ==
    /\ call.fn = "check_user_content"
    /\ ret = <<>>
    /\ \E o \in ScanOutcomes : ret' = <<Event("sync_scan", o)>>
    /\ UNCHANGED <<frames, ref, turn, call>>
    /\ UNCHANGED main

\* the rest of the try statement and its handler
WrapperVerdict ==
    /\ call.fn = "check_user_content"
    /\ Len(ret) = 1
    /\ ret' = Append(ret, Event("is_blocked", IsBlocked(ret[1].val, call.debug)))
    /\ UNCHANGED <<frames, ref, turn, call>>
    /\ UNCHANGED main

\* the wrapper calls one function and returns what it returns
WrapperDispatch ==
    /\ call.fn = "check_user_content"
    /\ Len(ret) = 2
    /\ ret' = ret \o Dispatch(ret[2].val, call.error_func)
              \o <<Event("return", "wrapper")>>
    /\ UNCHANGED <<frames, ref, turn, call>>
    /\ UNCHANGED main

NextWrapper ==
    \/ WrapperScan
    \/ WrapperVerdict
    \/ WrapperDispatch

SpecWrapper == InitWrapper /\ [][NextWrapper]_vars

\* --------------------------------------- example04 from gather to close
\* run_concurrent_scans with its two gathered coroutines as tasks of their
\* own: sync_scan and async_scan are started together (lines 106-109) and
\* awaited by asyncio.gather (line 112).
Gathered == {"sync_scan", "async_scan"}

\* what sync_scan may return: the action is a string or None
SyncResults == [action : {"allow", "block", None}]

ResultsOf(t) == IF t = "sync_scan" THEN SyncResults ELSE Handles

\* scan answers of at most one record, one of them with a status of None
CoopScanResponses ==
    SingleScanResponses
    \cup {ListResp(<<[id |-> "s1", status |-> None,
                      detection_results |-> NoAttr]>>)}

InitCoop ==
    /\ NoCall
    /\ variant = "coop"
    /\ pc = "gather"
    /\ async_result = [scan_id |-> "", report_id |-> ""]
    /\ retry_count = 0
    /\ scan_completed = FALSE
    /\ has_results = FALSE
    /\ scan_by_ids_response = Unbound
    /\ report_by_ids_response = Unbound
    /\ reports = Unbound
    /\ out = [p \in OutParts |-> <<>>]
    /\ closed = FALSE
    /\ queries = [s \in Sessions |-> 0]
    /\ waits = [s \in Sessions |-> 0]
    /\ keys = [s \in Sessions |-> {}]
    /\ sat = [s \in Sessions |-> <<>>]
    /\ fetched = [s \in Sessions |-> Unbound]
    /\ failed = "none"
    /\ frames = [t \in Gathered |-> [pc |-> "pending", result |-> None]]
    /\ ref = <<>>
    /\ turn = "none"

\* a gathered coroutine returns its result
GatherTaskReturns(t) ==
    /\ pc \in {"gather", "raised"}
    /\ frames[t].pc = "pending"
    /\ \E r \in ResultsOf(t) :
          frames' = [frames EXCEPT ![t] = [pc |-> "done", result |-> r]]
    /\ turn' = t
    /\ UNCHANGED <<ref, call, ret>>
    /\ UNCHANGED main

\* a gathered coroutine raises
GatherTaskRaises(t) ==
    /\ pc \in {"gather", "raised"}
    /\ frames[t].pc = "pending"
    /\ frames' = [frames EXCEPT ![t].pc = "raised"]
    /\ turn' = t
    /\ UNCHANGED <<ref, call, ret>>
    /\ UNCHANGED main

\* mutant of GatherReturns: the results are taken as soon as the batch has
\* been submitted
GatherReturnsEarly ==
    /\ pc = "gather"
    /\ frames["async_scan"].pc = "done"
    /\ async_result' = frames["async_scan"].result
    /\ pc' = "results"
    /\ UNCHANGED <<variant, retry_count, scan_completed, has_results,
                   scan_by_ids_response, report_by_ids_response, reports,
                   out, closed>>
    /\ UNCHANGED hist
    /\ UNCHANGED aux

\* example04 line 112, asyncio_concurrent line 120: gather returns when
\* both coroutines have returned
\*   sync_result, async_result = await asyncio.gather(...)
GatherReturns ==
    /\ pc = "gather"
    /\ \A t \in Gathered : frames[t].pc = "done"
    /\ async_result' = frames["async_scan"].result
    /\ pc' = "results"
    /\ UNCHANGED <<variant, retry_count, scan_completed, has_results,
                   scan_by_ids_response, report_by_ids_response, reports,
                   out, closed>>
    /\ UNCHANGED hist
    /\ UNCHANGED aux

\* example04 line 112: gather passes on the first exception of either
\* coroutine; nothing is assigned
GatherRaises ==
    /\ pc = "gather"
    /\ \E t \in Gathered : frames[t].pc = "raised"
    /\ pc' = "raised"
    /\ failed' = "submit"
    /\ UNCHANGED prog
    /\ UNCHANGED <<queries, waits, keys, sat, fetched>>
    /\ UNCHANGED aux

\* example04 lines 116-133: the two results are printed; line 124 calls
\* action.capitalize(), which raises on an action of None
PrintResults ==
    /\ pc = "results"
    /\ pc' = IF frames["sync_scan"].result.action = None
             THEN "raised" ELSE "guard"
    /\ failed' = IF frames["sync_scan"].result.action = None
                 THEN "results" ELSE failed
    /\ UNCHANGED prog
    /\ UNCHANGED <<queries, waits, keys, sat, fetched>>
    /\ UNCHANGED aux

ScanQueryCoop == ScanQueryFrom(CoopScanResponses)

NextCoop ==
    \/ \E t \in Gathered : GatherTaskReturns(t)
    \/ \E t \in Gathered : GatherTaskRaises(t)
    \/ GatherReturns
    \/ GatherRaises
    \/ PrintResults
    \/ Guard
    \/ ScanInit
    \/ ScanLoopTest
    \/ ScanWait
    \/ ScanQueryCoop
    \/ ScanQueryRaises
    \/ ScanCheck
    \/ ScanPresent
    \/ ReportInit
    \/ ReportLoopTest
    \/ ReportWait
    \/ ReportQuerySingle
    \/ ReportQueryRaises
    \/ ReportCheck
    \/ ReportPresent
    \/ Close
    \/ HandleError

\* The event loop runs whatever is ready: the coroutine goes on with its
\* next statement and a gathered coroutine ends one way or the other.
SpecCoop == InitCoop /\ [][NextCoop]_vars /\ WF_vars(NextCoop)

\* ------------------------------------- the two pollers on the same answers
\* One polling loop of example03 and the same loop of example04 run side
\* by side with max_retries as their budget.  `turn` is the loop both run
\* ("scan": lines 117-148 and 140-169, "report": lines 191-221 and
\* 193-225).  ref.tape is the sequence of answers of the service: the k-th
\* query of either poller is answered by its k-th entry.  ref.log[v] is what
\* poller v did: its queries and its waits, in order.
InitPair ==
    /\ NotRunning
    /\ NoCall
    /\ turn \in Sessions
    /\ frames = [v \in Variants |-> StartFrame]
    /\ ref = [tape |-> <<>>, log |-> [v \in Variants |-> <<>>]]

\* the queries poller v has issued
Issued(v) ==
    Cardinality({i \in 1..Len(ref.log[v]) : ref.log[v][i].ev = "query"})

\* example03 lines 123-124 and 195-196, example04 lines 147-148 and 200-201
PairLoopTest(v) ==
    /\ frames[v].pc = "loop"
    /\ frames' = [frames EXCEPT ![v].pc =
          IF LoopContinues(frames[v].retry_count, frames[v].completed)
          THEN (IF NeedsWait(frames[v].retry_count) THEN "wait" ELSE "query")
          ELSE "returned"]
    /\ UNCHANGED <<ref, turn, call, ret>>
    /\ UNCHANGED main

\* example03 lines 126 and 198: time.sleep(retry_wait); example04 lines 150
\* and 203: await asyncio.sleep(retry_wait)
PairWait(v) ==
    /\ frames[v].pc = "wait"
    /\ frames' = [frames EXCEPT ![v].pc = "query"]
    /\ ref' = [ref EXCEPT !.log[v] = Append(@, Event("wait", retry_wait))]
    /\ UNCHANGED <<turn, call, ret>>
    /\ UNCHANGED main

\* example03 lines 129-131 and 201-203, example04 lines 153-155 and
\* 206-208: the query returns the next answer of the service
PairQuery(v) ==
    /\ frames[v].pc = "query"
    /\ \E r \in (IF turn = "scan" THEN SingleScanResponses
                 ELSE SingleReportResponses) :
          /\ Issued(v) < Len(ref.tape) => r = ref.tape[Issued(v) + 1]
          /\ frames' = [frames EXCEPT
                 ![v].response = StoreResponse(frames[v].response, r),
                 ![v].pc = "check"]
          /\ ref' = [ref EXCEPT
                 !.tape = IF Issued(v) < Len(@) THEN @ ELSE Append(@, r),
                 !.log[v] = Append(@, Event("query", Issued(v) + 1))]
    /\ UNCHANGED <<turn, call, ret>>
    /\ UNCHANGED main

\* example03 lines 135-148 and 207-221, example04 lines 159-169 and 212-225
PairCheck(v) ==
    /\ frames[v].pc = "check"
    /\ LET done == IF turn = "scan"
                   THEN CheckScanCompleted(frames[v].response,
                                           frames[v].completed)
                   ELSE CheckHasResults(v, frames[v].response,
                                        frames[v].completed)
           count == IncrementRetry(frames[v].retry_count)
       IN  frames' = [frames EXCEPT
               ![v].retry_count = count,
               ![v].completed = done,
               ![v].pc = IF BreaksOut(count, done) THEN "returned"
                         ELSE "loop"]
    /\ UNCHANGED <<ref, turn, call, ret>>
    /\ UNCHANGED main

NextPair ==
    \E v \in Variants :
        \/ PairLoopTest(v)
        \/ PairWait(v)
        \/ PairQuery(v)
        \/ PairCheck(v)

SpecPair == InitPair /\ [][NextPair]_vars

\* --------------------------------------- the verdict of one report alone
\* most detection results of one report
MaxResults == 2

\* a detection result as the aggregation reads it: "ABSENT" is an
\* attribute the object does not have (hasattr is False)
AnyDetectionResults ==
    [data_type : {"prompt", "response", "other", "ABSENT"},
     action : {"allow", "block", "ABSENT"}]

\* example03 line 278, example04 line 280: the aggregation runs on a list
\* of detection results that is not empty
InitVerdict ==
    /\ NotRunning
    /\ NoTasks
    /\ call \in [fn : {"verdict"},
                 detection_results :
                     SeqsUpTo(AnyDetectionResults, MaxResults) \ {<<>>}]
    /\ ret = <<>>

\* example03 lines 282-345, example04 lines 284-347
AggregateVerdict ==
    /\ call.fn = "verdict"
    /\ ret = <<>>
    /\ ret' = <<OverallVerdict(call.detection_results)>>
    /\ UNCHANGED <<frames, ref, turn, call>>
    /\ UNCHANGED main

SpecVerdict == InitVerdict /\ [][AggregateVerdict]_vars

\* ================================================================ claims
\* ----------------------------------------------- sessions and their states
Flag(s) == IF s = "scan" THEN scan_completed ELSE has_results

Response(s) ==
    IF s = "scan" THEN scan_by_ids_response ELSE report_by_ids_response

LoopPcs(s) ==
    IF s = "scan" THEN {"scan_loop", "scan_wait", "scan_query", "scan_check"}
    ELSE {"report_loop", "report_wait", "report_query", "report_check"}

\* the loop of session s has not been entered yet
Before(s) ==
    \/ pc \in {"submit", "gather", "results", "guard", "scan_init"}
    \/ s = "report" /\ pc \in LoopPcs("scan") \cup {"scan_present", "report_init"}

\* example04 skipped both polls because an identifier is empty
Skipped ==
    /\ variant = "coop"
    /\ ~(TruthyId(async_result.scan_id) /\ TruthyId(async_result.report_id))

\* the state of a polling session in the spec's state machine; "Failed" is
\* a session whose query raised
PollState(s) ==
    IF pc \in LoopPcs(s) THEN "Polling"
    ELSE IF Before(s) \/ Skipped \/ failed \in {"submit", "results"}
         THEN "NotStarted"
    ELSE IF failed = s THEN "Failed"
    ELSE IF s = "report" /\ failed \in {"scan", "scan_present"}
         THEN "NotStarted"
    ELSE IF Flag(s) THEN "Completed" ELSE "Exhausted"

\* the session reached one of its two normal terminal states
Ended(s) == PollState(s) \in {"Completed", "Exhausted"}

\* index of the first query of session s whose response satisfied the
\* session's predicate as the spec states it; 0 if none did so far
FirstSat(s) ==
    IF \E i \in DOMAIN sat[s] : sat[s][i]
    THEN CHOOSE i \in DOMAIN sat[s] :
             sat[s][i] /\ \A j \in 1..(i - 1) : ~sat[s][j]
    ELSE 0

\* C1: with max_attempts = N, one polling session (scan-id poll or
\* report-id poll) issues at most N remote queries, whatever the service
\* answers.
C1_AtMostNQueries ==
    \A s \in Sessions : queries[s] <= max_retries

\* both sessions used their whole budget
C1_Witness ==
    /\ queries["scan"] = max_retries
    /\ queries["report"] = max_retries
    /\ pc = "done"

\* C2: if the k-th query is the first whose response satisfies the loop's
\* completion predicate, the poller issues exactly k queries, waits exactly
\* k-1 times and ends with completed = true (k = 1: one query, no wait).
C2_StopsAtFirstSatisfying ==
    \A s \in Sessions :
        FirstSat(s) > 0 =>
            /\ queries[s] = FirstSat(s)
            /\ waits[s] = FirstSat(s) - 1
            /\ (pc \notin LoopPcs(s) => PollState(s) = "Completed" /\ Flag(s))

\* the report-id poll stopped after its second query (empty results on call
\* 1, data on call 2) and the scan-id poll after its first
C2_Witness ==
    /\ pc = "done"
    /\ sat["report"] = <<FALSE, TRUE>>
    /\ queries["report"] = 2 /\ waits["report"] = 1 /\ has_results
    /\ sat["scan"] = <<TRUE>>
    /\ queries["scan"] = 1 /\ waits["scan"] = 0 /\ scan_completed

\* C3: if no response ever satisfies the completion predicate, the poller
\* issues exactly N queries, waits exactly N-1 times and ends with
\* completed = false, retaining the response of the last query.
C3_ExhaustsBudget ==
    \A s \in Sessions :
        (Ended(s) /\ FirstSat(s) = 0) =>
            /\ queries[s] = max_retries
            /\ waits[s] = max_retries - 1
            /\ ~Flag(s)
            /\ Response(s) = fetched[s]

\* the scan-id poll ran out of budget on a response that is still pending
C3_Witness ==
    /\ pc = "scan_present"
    /\ sat["scan"] = <<FALSE, FALSE, FALSE>>
    /\ ~scan_completed
    /\ scan_by_ids_response =
           ListResp(<<[id |-> "s1", status |-> "pending",
                       detection_results |-> NoAttr]>>)

CheckPc(s) == IF s = "scan" THEN "scan_check" ELSE "report_check"

QueryPc(s) == IF s = "scan" THEN "scan_query" ELSE "report_query"

\* the response the last query of session s returned has been inspected
Inspected(s) == fetched[s].kind # "unbound" /\ pc # CheckPc(s)

C5_AnyRecordCompletes ==
    \A s \in Sessions :
        (Inspected(s) /\ \E i \in DOMAIN ReportsOf(Response(s)).items :
            LET rec == ReportsOf(Response(s)).items[i] IN
                IF s = "scan" THEN rec.status = "complete"
                ELSE rec.detection_results.items # <<>>)
            => Flag(s)

\* the satisfying record is the second of two; the first one is not
C5_Witness ==
    /\ pc = "done"
    /\ scan_by_ids_response =
           ListResp(<<[id |-> "s1", status |-> "pending", detection_results |-> NoAttr],
                      [id |-> "s1", status |-> "complete", detection_results |-> NoAttr]>>)
    /\ scan_completed
    /\ Len(report_by_ids_response.items) = 2
    /\ report_by_ids_response.items[1].detection_results = Empty
    /\ report_by_ids_response.items[2].detection_results.items # <<>>
    /\ has_results

\* the presentation step of session s has run
Presented(s) ==
    /\ Ended(s)
    /\ pc # (IF s = "scan" THEN "scan_present" ELSE "report_present")

\* C6: in both terminal outcomes the response handed to the formatting
\* step is the one the most recent query of that session returned, and what
\* is printed is computed from it.
C6_LastResponsePresented ==
    /\ \A s \in Sessions : Ended(s) => Response(s) = fetched[s]
    /\ Presented("scan") => out["scan"] = PresentScans(variant, fetched["scan"])
    /\ Presented("report") =>
           out["report"] = PresentReports(variant, fetched["report"],
                                          ReportsOf(fetched["report"]), has_results)

\* the scan-id poll completed on its second response, the report-id poll
\* ran out of budget on an answer of None; both were presented
C6_Witness ==
    /\ pc = "done"
    /\ sat["scan"] = <<FALSE, TRUE>>
    /\ scan_completed
    /\ sat["report"] = <<FALSE, FALSE, FALSE>>
    /\ report_by_ids_response = NoneResp
    /\ out["report"] = <<Line("No report data available", "", "", "")>>
    /\ out["scan"] # <<>>

\* C7: a query that raises ends the poll with the error: control leaves the
\* loop at once, the failed attempt is neither counted in retry_count nor
\* recorded as a response, and no query or wait follows.
C7_ErrorIsTerminal ==
    [][/\ failed' \in Sessions =>
            /\ pc' \in {"raised", "exit1"}
            /\ retry_count' = queries'[failed'] - 1
            /\ Len(sat'[failed']) = queries'[failed'] - 1
            /\ scan_by_ids_response' = scan_by_ids_response
            /\ report_by_ids_response' = report_by_ids_response
            /\ scan_completed' = scan_completed
            /\ has_results' = has_results
       /\ failed \in Sessions =>
            /\ queries' = queries
            /\ waits' = waits
            /\ failed' = failed]_vars

\* the second scan-id query raised and example04's handlers ended the run
C7_Witness ==
    /\ failed = "scan"
    /\ pc = "exit1"
    /\ queries["scan"] = 2
    /\ waits["scan"] = 1
    /\ retry_count = 1

\* C8 as claimed: for a handle with an empty scan_id or report_id no query
\* is ever issued.
C8_NoQueryForEmptyHandle ==
    (pc # "submit"
        /\ (~TruthyId(async_result.scan_id) \/ ~TruthyId(async_result.report_id)))
        => (queries["scan"] = 0 /\ queries["report"] = 0)

\* every query of session s returned and none satisfied the predicate
AllUnsat(s) == Len(sat[s]) = max_retries /\ \A i \in DOMAIN sat[s] : ~sat[s][i]

\* control is past the loop of session s and no query of s raised
PastLoop(s) ==
    /\ failed # s
    /\ \/ pc \in {"report_present", "close", "done"}
       \/ s = "scan" /\ pc \in {"scan_present", "report_init"} \cup LoopPcs("report")
       \/ s = "scan" /\ failed = "report"

MachineStep(s) ==
    \/ /\ PollState(s)' = PollState(s)
       /\ PollState(s) \in {"Completed", "Exhausted", "Failed"} =>
              (queries'[s] = queries[s] /\ waits'[s] = waits[s])
    \/ PollState(s) = "NotStarted" /\ PollState(s)' = "Polling"
    \/ /\ PollState(s) = "Polling" /\ PollState(s)' = "Completed"
       /\ pc = CheckPc(s)
       /\ SessionPredicate(s, fetched[s])
    \/ /\ PollState(s) = "Polling" /\ PollState(s)' = "Exhausted"
       /\ retry_count' = max_retries
       /\ queries[s] = max_retries
       /\ FirstSat(s) = 0

\* a query of session s raises
FailStep(s) ==
    /\ PollState(s) = "Polling" /\ PollState(s)' = "Failed"
    /\ pc = QueryPc(s)
    /\ queries'[s] = queries[s] + 1
    /\ waits'[s] = waits[s]

\* C10 as claimed: NotStarted -> Polling -> {Completed, Exhausted} and no
\* other way for polling to stop.
C10_OnlyTwoWaysToStop ==
    [][\A s \in Sessions : MachineStep(s)]_vars

\* C10 (amended): NotStarted -> Polling -> {Completed, Exhausted, Failed}:
\* all three are terminal, Completed is entered only directly after a query
\* whose response satisfies the predicate, Exhausted only with the attempt
\* count at max_attempts and no satisfying response, and the one other way
\* polling stops is a query that raises.
C10_StateMachine ==
    [][\A s \in Sessions : MachineStep(s) \/ FailStep(s)]_vars

\* the scan-id poll ran out of budget and the report-id poll ended on a
\* query that raised
C10_Witness ==
    /\ PollState("scan") = "Exhausted"
    /\ PollState("report") = "Failed"
    /\ queries["scan"] = max_retries
    /\ pc = "exit1"

\* C11: a wait is taken only when an earlier attempt of the same session
\* exists (retry_count > 0) and the query follows it directly: the k-th query
\* of a session goes out after exactly k - 1 waits, so the first query has no
\* wait before it, every later query has exactly one, and a session that has
\* ended has taken one wait fewer than queries (no wait after the last one)
WaitStep(s) == waits'[s] # waits[s]

QueryStep(s) == queries'[s] # queries[s]

C11_WaitOnlyBetweenQueries ==
    [][\A s \in Sessions :
          /\ WaitStep(s) =>
                /\ retry_count > 0
                /\ queries[s] >= 1
                /\ waits'[s] = queries[s]
                /\ pc' = QueryPc(s)
          /\ QueryStep(s) =>
                /\ waits[s] = queries[s]
                /\ queries'[s] = waits'[s] + 1
          /\ (Ended(s)' /\ queries'[s] > 0) => waits'[s] = queries'[s] - 1]_vars

\* the scan-id session used its whole budget: three queries, two waits
C11_Witness ==
    /\ pc = "scan_present"
    /\ queries["scan"] = max_retries
    /\ waits["scan"] = max_retries - 1

\* C12: the handle is not changed once the submission returned it, and every
\* query of a session is keyed by the same identifier of that handle: the
\* scan-id queries by its scan_id, the report-id queries by its report_id
C12_HandleIsReadOnly ==
    [][/\ pc # "submit" => async_result' = async_result
       /\ keys'["scan"] \subseteq {async_result'.scan_id}
       /\ keys'["report"] \subseteq {async_result'.report_id}
       /\ \A s \in Sessions : QueryStep(s) => keys'[s] # {}]_vars

\* both sessions used their whole budget on a handle whose two identifiers
\* differ
C12_Witness ==
    /\ pc = "done"
    /\ async_result.scan_id # async_result.report_id
    /\ queries["scan"] = max_retries
    /\ queries["report"] = max_retries
    /\ keys["scan"] = {async_result.scan_id}
    /\ keys["report"] = {async_result.report_id}

\* ------------------------------------------------------- partial records
\* a record that lacks the field its loop looks at, or carries it empty or
\* null
PartialRecord(s, rec) ==
    IF s = "scan" THEN rec.status \in {"ABSENT", None, ""}
    ELSE ~rec.detection_results.attr \/ rec.detection_results.items = <<>>

\* a non-empty response made of partial records only
AllPartial(s, resp) ==
    /\ Truthy(ReportsOf(resp))
    /\ \A i \in DOMAIN ReportsOf(resp).items :
           PartialRecord(s, ReportsOf(resp).items[i])

\* the first response of session s has been inspected
FirstInspected(s) ==
    /\ queries[s] = 1
    /\ pc \notin {QueryPc(s), CheckPc(s)}
    /\ failed # s

\* C13: partial records never cause a hard failure: a response made of
\* records that lack the expected field, or carry it empty or null, counts as
\* not yet complete while polling, and the presentation prints every record
\* of the last response without raising
C13_PartialRecordsNeverRaise ==
    /\ failed \notin {"scan_present", "report_present"}
    /\ \A s \in Sessions :
          /\ (FirstInspected(s) /\ AllPartial(s, fetched[s])) => ~Flag(s)
          /\ Presented(s) => ~Raised(out[s])

\* C14: provided every query call and every wait returns, every polling
\* session that has started reaches Completed or Exhausted
C14_EverySessionTerminates ==
    \A s \in Sessions : (PollState(s) = "Polling") ~> Ended(s)

\* the report-id session has run out of its budget after the scan-id session
\* ran out of its own
C14_Witness ==
    /\ PollState("report") = "Exhausted"
    /\ PollState("scan") = "Exhausted"
    /\ queries["report"] = max_retries
    /\ failed = "none"

\* the number of queries a poll running alone issues when the first answer
\* that meets its predicate is the k-th (k = 0: none does)
LoneQueries(k) == IF k = 0 THEN max_retries ELSE k

C16_SeparateBudgets ==
    /\ [][/\ pc = "scan_present" => pc' \in {"report_init", "raised"}
          /\ pc = "report_init" =>
                (pc' = "report_loop" /\ retry_count' = 0 /\ ~has_results')
          /\ QueryStep("report") =>
                (Ended("scan") /\ retry_count = queries["report"])]_vars
    /\ [](/\ pc \in LoopPcs("report") => Ended("scan")
          /\ (Ended("report") /\ ~has_results) =>
                queries["report"] = max_retries)

\* the scan-id poll used all its attempts without completing, and the
\* report-id poll still had three of its own, the third of which brought
\* data
C16_Witness ==
    /\ pc = "done"
    /\ queries["scan"] = max_retries
    /\ ~scan_completed
    /\ queries["report"] = max_retries
    /\ has_results

\* the line that tells that session s has nothing to show
NoDataLine(s) ==
    IF s = "scan"
    THEN (IF variant = "sync" THEN "No scan data available"
          ELSE "No scan details available")
    ELSE IF Truthy(Response(s)) THEN "No reports available in response"
    ELSE "No report data available"

\* C17: when the last response of a session is None, an empty list or a
\* report wrapper without reports, the presentation prints the one line that
\* says no data is available, and raises nothing
C17_NoDataIsReported ==
    \A s \in Sessions :
        (Presented(s) /\ ~Truthy(ReportsOf(Response(s)))) =>
            /\ out[s] = <<Line(NoDataLine(s), "", "", "")>>
            /\ ~Raised(out[s])
            /\ failed \notin {"scan_present", "report_present"}

\* the scan-id poll ended on an empty list and the report-id poll on a
\* wrapper without reports; both were presented
C17_Witness ==
    /\ pc = "done"
    /\ scan_by_ids_response = ListResp(<<>>)
    /\ report_by_ids_response = ObjectResp(<<>>)
    /\ out["scan"] # <<>>
    /\ out["report"] # <<>>

\* ------------------------------------------------------- helper functions
\* the call of helper function fn has returned
Returned(fn) == call.fn = fn /\ ret # <<>>

\* word w occurs in prompt p, upper and lower case taken as the same
Mentions(p, w) ==
    \E k \in 0..(Len(p) - Len(w)) :
        \A i \in 1..Len(w) : LowerChar(p[k + i]) = w[i]

\* the substrings that make each mock scanner block
BlockWords(scanner) ==
    IF scanner = "mock_example" THEN {W_url, W_bank_account, W_password}
    ELSE {W_url, W_bank_account, W_password, W_routing_number}

\* C18 as stated: the mock scanner's sync_scan returns action 'block'
\* exactly when the lower-cased prompt contains 'url', 'bank account' or
\* 'password', and 'allow' for every other prompt
C18_BlocksOnThreeSubstrings ==
    Returned("sync_scan") =>
        ret[1].action =
            IF \E w \in {W_url, W_bank_account, W_password} :
                   Mentions(call.content.prompt, w)
            THEN "block" ELSE "allow"

\* C18: sync_scan of either mock scanner returns action 'block' exactly
\* when the lower-cased prompt contains one of that scanner's substrings
\* ('url', 'bank account', 'password', and for the scanner of example06 also
\* 'routing number') and 'allow' otherwise, whatever the profile, the
\* response, the transaction id and the metadata are
C18_BlocksOnItsSubstrings ==
    Returned("sync_scan") =>
        ret[1].action =
            IF \E w \in BlockWords(call.scanner) :
                   Mentions(call.content.prompt, w)
            THEN "block" ELSE "allow"

\* the scanner of example06 blocked a prompt that names a routing number
\* and none of the three other substrings
C18_Witness ==
    /\ Returned("sync_scan")
    /\ call.scanner = "example06"
    /\ Mentions(call.content.prompt, W_routing_number)
    /\ \A w \in {W_url, W_bank_account, W_password} :
           ~Mentions(call.content.prompt, w)
    /\ call.metadata = None
    /\ ret[1].action = "block"

\* the issues print_detection_summary is to list for a source, in order
IssueOrder == <<"URL categories", "DLP", "Injection">>

IssueFlag(name) ==
    CASE name = "URL categories" -> "url_cats"
      [] name = "DLP" -> "dlp"
      [] name = "Injection" -> "injection"

ExpectedIssues(source, d) ==
    LET Listed(name) ==
            /\ d.obj
            /\ IssueFlag(name) \in d.has
            /\ d[IssueFlag(name)]
            /\ (name = "Injection" => source = "Prompt")
    IN  SelectSeq(IssueOrder, Listed)

\* C19: print_detection_summary prints one line: the issues whose flag is
\* set, in the order URL categories, DLP, Injection, with Injection listed
\* only for source 'Prompt'; when nothing is to be listed it prints the 'No
\* issues detected' line instead
C19_IssuesInFixedOrder ==
    Returned("print_detection_summary") =>
        /\ Len(ret) = 1
        /\ IF ExpectedIssues(call.source, call.detection) = <<>>
           THEN ret[1] = Printed("No issues detected in",
                                 LowerSource(call.source), <<>>)
           ELSE ret[1] = Printed("detected issues", call.source,
                                 ExpectedIssues(call.source, call.detection))
        /\ (call.source = "Response" =>
               \A i \in DOMAIN ret[1].items : ret[1].items[i] # "Injection")

\* for source 'Response' all three flags were set and two were listed
C19_Witness ==
    /\ Returned("print_detection_summary")
    /\ call.source = "Response"
    /\ call.detection = PromptDetected(TRUE, TRUE, TRUE)
    /\ ret[1].items = <<"URL categories", "DLP">>

VerdictLines == {"Content allowed", "Content blocked"}

\* C20: print_scan_result_summary prints the scan id, report id,
\* transaction id, category and action of the response, in that order, and
\* after them exactly one verdict line, the last line: 'Content allowed' if
\* and only if action equals 'allow', otherwise 'Content blocked'
C20_OneVerdictLine ==
    Returned("print_scan_result_summary") =>
        LET r == call.scan_response
        IN  /\ Len(ret) >= 6
            /\ SubSeq(ret, 1, 5) =
                   <<Printed("Scan ID", "", <<r.scan_id>>),
                     Printed("Report ID", "", <<r.report_id>>),
                     Printed("Transaction ID", "", <<r.tr_id>>),
                     Printed("Category", "", <<r.category>>),
                     Printed("Action", "", <<r.action>>)>>
            /\ {i \in DOMAIN ret : ret[i].line \in VerdictLines} = {Len(ret)}
            /\ ret[Len(ret)].line =
                   IF r.action = "allow" THEN "Content allowed"
                   ELSE "Content blocked"

\* an action spelled 'ALLOW' was printed by the helper of src/utils.py
\* and reported as blocked
C20_Witness ==
    /\ Returned("print_scan_result_summary")
    /\ call.helper = "src"
    /\ call.scan_response.action = "ALLOW"
    /\ ret[Len(ret)].line = "Content blocked"
    /\ Len(ret) = 8

\* ------------------------------------------------------------- decorator
\* positions in ret of the events named e
EventsAt(e) == {i \in DOMAIN ret : ret[i].ev = e}

\* the wrapper has returned
WrapperReturned == EventsAt("return") # {}

\* the input counts as blocked as the claims define it: the scan's action
\* is not 'allow', or there is no scan response
InputBlocked == ret # <<>> /\ ~(ret[1].val.kind = "response"
                                /\ ret[1].val.action = "allow")

\* C21: the decorator scans before it processes: at most one sync_scan is
\* ever issued, and once the wrapper has returned exactly one; it is the
\* first thing that happens, before the business function or the error
\* function; with an error function supplied a blocked input goes to the
\* error function and the business function is not called
C21_ScanBeforeProcessing ==
    /\ Cardinality(EventsAt("sync_scan")) <= 1
    /\ \A i \in EventsAt("func") \cup EventsAt("error_func") :
           \E j \in EventsAt("sync_scan") : j < i
    /\ WrapperReturned =>
          /\ EventsAt("sync_scan") = {1}
          /\ (InputBlocked /\ call.error_func # None) =>
                (EventsAt("error_func") # {} /\ EventsAt("func") = {})

\* the scan returned no response, an error function was supplied and was
\* called
C21_Witness ==
    /\ WrapperReturned
    /\ ret[1].val.kind = "None"
    /\ ~call.debug
    /\ call.error_func # None
    /\ EventsAt("error_func") # {}

\* the scan, or the debug output after it, raised
ScanFailed ==
    /\ ret # <<>>
    /\ \/ ret[1].val.kind = "raises"
       \/ call.debug /\ ret[1].val.kind = "None"

C27_ExactlyOneFunction ==
    WrapperReturned =>
        /\ Cardinality(EventsAt("func")) + Cardinality(EventsAt("error_func")) = 1
        /\ EventsAt("func") # {} <=> (~ret[2].val \/ call.error_func = None)
        /\ (InputBlocked /\ call.error_func = None) => EventsAt("func") # {}

\* a blocked input reached the business function because no error function
\* was supplied
C27_Witness ==
    /\ WrapperReturned
    /\ ret[1].val = [kind |-> "response", action |-> "block"]
    /\ call.error_func = None
    /\ EventsAt("func") # {}

\* ---------------------------------------------------------------- gather
AllGathered == \A t \in Gathered : frames[t].pc = "done"

\* C23: in the cooperative example the synchronous scan and the batch
\* submission are awaited together: nothing after the gather runs, and no
\* poll query is issued, until both have returned; when either of them
\* raises no poll query is ever issued
C23_BothBeforeAnyQuery ==
    /\ [](pc \notin {"gather", "raised", "exit1"} => AllGathered)
    /\ [](\A s \in Sessions : queries[s] > 0 => AllGathered)
    /\ []((\E t \in Gathered : frames[t].pc = "raised") =>
             (\A s \in Sessions : queries[s] = 0)
             /\ pc \in {"gather", "raised", "exit1"})
    /\ [][\A s \in Sessions :
             QueryStep(s) => (AllGathered /\ async_result =
                                 frames["async_scan"].result)]_vars

\* the batch submission has returned its handle, the synchronous scan is
\* still running, and the coroutine is still held at the gather
C23_Witness ==
    /\ pc = "gather"
    /\ frames["async_scan"].pc = "done"
    /\ frames["async_scan"].result = [scan_id |-> "id-1", report_id |-> "id-1"]
    /\ frames["sync_scan"].pc = "pending"

\* --------------------------------------------------- the pollers compared
\* sequence a is the beginning of sequence b
IsPrefix(a, b) ==
    /\ Len(a) =< Len(b)
    /\ \A i \in 1..Len(a) : a[i] = b[i]

BothReturned == \A v \in Variants : frames[v].pc = "returned"

\* C24: on the same answers and with the same budget the blocking poller
\* and the cooperative poller issue the same queries and waits in the same
\* order and end with the same completion flag and the same last response,
\* for the status poll and for the report poll
C24_PollersAgree ==
    /\ \/ IsPrefix(ref.log["sync"], ref.log["coop"])
       \/ IsPrefix(ref.log["coop"], ref.log["sync"])
    /\ BothReturned =>
          /\ ref.log["sync"] = ref.log["coop"]
          /\ frames["sync"].completed = frames["coop"].completed
          /\ frames["sync"].response = frames["coop"].response
          /\ frames["sync"].retry_count = frames["coop"].retry_count

\* both pollers have ended the report poll on a second answer that is an
\* object with a record that carries data, after a first answer of None
C24_Witness ==
    /\ BothReturned
    /\ turn = "report"
    /\ Len(ref.tape) = 2
    /\ ref.tape[1] = NoneResp
    /\ ref.tape[2].kind = "object"
    /\ frames["coop"].completed
    /\ Len(ref.log["coop"]) = 3

\* ------------------------------------------------------ the retry counter
\* C25 as claimed: in every state of a polling session retry_count is
\* between 0 and max_retries and equals the number of queries the session
\* has issued so far.
C25_CounterEqualsQueries ==
    \A s \in Sessions :
        (pc \in LoopPcs(s) \/ failed = s) =>
            /\ 0 <= retry_count /\ retry_count <= max_retries
            /\ retry_count = queries[s]

\* C25 (amended): retry_count is between 0 and max_retries and counts the
\* queries whose response has been inspected: it equals the number of
\* queries issued at the head of the loop, during the wait and after the
\* loop, it is one behind from the query to the increment that ends the
\* iteration, and it stays one behind when the query raises; within a
\* session it never decreases and it grows by exactly one, once per query
C25_CounterFollowsQueries ==
    /\ [](0 <= retry_count /\ retry_count <= max_retries)
    /\ [](\A s \in Sessions :
             /\ (pc \in LoopPcs(s) \ {CheckPc(s)}) => retry_count = queries[s]
             /\ (pc = CheckPc(s) \/ failed = s) => retry_count = queries[s] - 1
             /\ (s = "scan" /\ pc \in {"scan_present", "report_init"}) =>
                    retry_count = queries[s]
             /\ (s = "report" /\ pc \in {"report_present", "close", "done"}
                   /\ ~Skipped) => retry_count = queries[s])
    /\ [][\A s \in Sessions :
             /\ (pc \in LoopPcs(s) /\ retry_count' # retry_count) =>
                   /\ pc = CheckPc(s)
                   /\ retry_count' = retry_count + 1
                   /\ retry_count' = queries[s]
             /\ QueryStep(s) =>
                   /\ queries'[s] = retry_count + 1
                   /\ retry_count' = retry_count]_vars

\* the third query of the report-id poll has returned and its response is
\* about to be inspected: three queries issued, two counted
C25_Witness ==
    /\ pc = "report_check"
    /\ queries["report"] = max_retries
    /\ retry_count = max_retries - 1

\* ---------------------------------------------------- the completion flag
\* C26: the completion flag is monotone and faithful to the last response:
\* once true it is never reset within the session and no further query of
\* the session follows; when the loop has ended the flag is true exactly
\* when the last response satisfies the loop's predicate, and a false flag
\* means that none of the responses the session received satisfied it
C26_FlagMonotoneAndFaithful ==
    /\ [][\A s \in Sessions :
             /\ Flag(s) => Flag(s)'
             /\ QueryStep(s) => ~Flag(s)
             /\ (~Flag(s) /\ Flag(s)') =>
                   (pc = CheckPc(s) /\ SessionPredicate(s, fetched[s]))]_vars
    /\ [](\A s \in Sessions :
             /\ Ended(s) => (Flag(s) <=> SessionPredicate(s, fetched[s]))
             /\ Ended(s) => (Flag(s) <=> sat[s][Len(sat[s])])
             /\ (~Flag(s) /\ pc # CheckPc(s)) =>
                    \A i \in DOMAIN sat[s] : ~sat[s][i]
             /\ Flag(s) => FirstSat(s) = Len(sat[s]))

\* the scan-id poll has ended with the flag set by its second response,
\* and the report-id poll has ended with the flag false after three
\* responses
C26_Witness ==
    /\ pc = "report_present"
    /\ scan_completed
    /\ Len(sat["scan"]) = 2
    /\ ~has_results
    /\ Len(sat["report"]) = max_retries

\* ------------------------------------------------- the mock scan result
\* C28: the result of a mock scan is consistent: its action is 'block'
\* exactly when prompt_detected.url_cats or prompt_detected.dlp is set; a
\* prompt that contains 'ignore' sets prompt_detected.injection, and when
\* that is the only detection the action is 'allow'; the flags of
\* response_detected are always false
C28_MockResultConsistent ==
    Returned("sync_scan") =>
        /\ ret[1].action \in {"allow", "block"}
        /\ ret[1].action = "block" <=>
              (ret[1].prompt_detected.url_cats \/ ret[1].prompt_detected.dlp)
        /\ ret[1].prompt_detected.injection <=>
              Mentions(call.content.prompt, W_ignore)
        /\ (/\ Mentions(call.content.prompt, W_ignore)
            /\ \A w \in BlockWords(call.scanner) :
                  ~Mentions(call.content.prompt, w)) =>
              /\ ret[1].prompt_detected.injection
              /\ ret[1].action = "allow"
        /\ ~ret[1].response_detected.url_cats
        /\ ~ret[1].response_detected.dlp
        /\ ~ret[1].response_detected.injection

\* a prompt with 'Ignore' and nothing else: the injection is detected and
\* the action is 'allow'
C28_Witness ==
    /\ Returned("sync_scan")
    /\ Mentions(call.content.prompt, W_ignore)
    /\ ret[1].prompt_detected.injection
    /\ ~ret[1].prompt_detected.url_cats
    /\ ~ret[1].prompt_detected.dlp
    /\ ret[1].action = "allow"

\* ----------------------------------------------------- the report verdict
\* the detection results in the opposite order
Reversed(s) == [i \in 1..Len(s) |-> s[Len(s) + 1 - i]]

\* C29: the overall verdict of a presented report is 'Content blocked'
\* exactly when at least one of its detection results with data_type
\* 'prompt' or 'response' has action 'block'; the order of the detection
\* results makes no difference, and a result with another data_type or
\* without one never changes the verdict
C29_BlockedIffSomeBlock ==
    Returned("verdict") =>
        /\ ret[1] \in {"Content blocked", "Content allowed"}
        /\ ret[1] = "Content blocked" <=>
              \E i \in DOMAIN call.detection_results :
                  /\ call.detection_results[i].data_type
                         \in {"prompt", "response"}
                  /\ call.detection_results[i].action = "block"
        /\ OverallVerdict(Reversed(call.detection_results)) = ret[1]
        /\ \A d \in AnyDetectionResults :
              d.data_type \notin {"prompt", "response"} =>
                  /\ OverallVerdict(Append(call.detection_results, d)) = ret[1]
                  /\ OverallVerdict(<<d>> \o call.detection_results) = ret[1]

\* an allowed prompt result comes first, a blocked response result second:
\* the content is blocked
C29_Witness ==
    /\ Returned("verdict")
    /\ call.detection_results =
           <<[data_type |-> "prompt", action |-> "allow"],
             [data_type |-> "response", action |-> "block"]>>
    /\ ret[1] = "Content blocked"

\* ------------------------------------------------------ closing the scanner
SomethingRaised ==
    \/ failed # "none"
    \/ \E t \in Gathered : frames[t].pc = "raised"

\* C30: in the cooperative example the scanner is closed at most once and
\* no query is issued after the close; every run closes the scanner unless
\* a scan, a query or the printing raises, a run that skips the polling
\* because an identifier is empty included, and a run in which something
\* raised never closes it
C30_ClosedOnceAtTheEnd ==
    /\ [][/\ closed => closed'
          /\ closed' # closed => (pc = "close" /\ pc' = "done")
          /\ closed => \A s \in Sessions : ~QueryStep(s)
          /\ closed => UNCHANGED <<pc, out, failed>>]_vars
    /\ [](SomethingRaised => ~closed)
    /\ [](pc = "exit1" => (SomethingRaised /\ ~closed))
    /\ (pc = "gather") ~> (closed \/ SomethingRaised)
    /\ (pc = "guard" /\ Skipped) ~> closed
    /\ (pc = "guard") ~> (closed \/ SomethingRaised)

\* the batch submission returned an empty report identifier: no query was
\* issued and the scanner has been closed
C30_Witness ==
    /\ closed
    /\ pc = "done"
    /\ async_result.scan_id = "id-1"
    /\ async_result.report_id = ""
    /\ \A s \in Sessions : queries[s] = 0

====
